---------------------------- MODULE Spec2Model ----------------------------
(***************************************************************************)
(* Grant Ships (src/server.js): the budget / allocation / distribution     *)
(* ledger of the in-memory grant-round server, as a state machine.         *)
(*                                                                         *)
(* Node runs one handler at a time; a handler gives up control only at an  *)
(* `await`.  Every action below is one such uninterrupted segment: from    *)
(* the continuation of one await up to the next await or the response.     *)
(* Amounts are BigInt wei; they are modelled as unbounded integers.        *)
(***************************************************************************)
EXTENDS Integers, Sequences, FiniteSets, TLC

(* ------------------------------ bounds -------------------------------- *)
MaxShips == 1        \* rounds ever created
MaxApps == 2         \* applications ever created
MaxAllocs == 2       \* allocations ever created
MaxFunds == 2        \* funding requests that ever reach the chain lookup
MaxRuns == 2         \* distribute requests that ever reach the payment loop
MaxInflight == 2     \* handlers suspended at an await at the same time

(* ------------------------- program constants -------------------------- *)
FEE_PERCENT == 5

(* Addresses as the requests spell them, and String.toLowerCase on them.  *)
CaptainAddr == "0xCAP"
CaptainMixedCase == "0xCap"
OtherAddr == "0xbob"
TREASURY_ADDRESS == "0xccD7"
toLowerCase(a) ==
  CASE a \in {"0xCAP", "0xCap"} -> "0xcap"
    [] a \in {"0xccD7", "0xCCD7"} -> "0xccd7"
    [] OTHER -> a

(* The chain as getTransaction / getTransactionReceipt report it.  A      *)
(* mined transaction does not change, so the lookup is a fixed table.     *)
TxHashes == {"txA", "txElsewhere", "txReverted", "txUnknown"}
ChainTx(h) ==
  CASE h = "txA"         -> [found |-> TRUE,  to |-> "0xCCD7", value |-> 10, status |-> 1]
    [] h = "txElsewhere" -> [found |-> TRUE,  to |-> "0xbob",  value |-> 10, status |-> 1]
    [] h = "txReverted"  -> [found |-> TRUE,  to |-> "0xccD7", value |-> 10, status |-> 0]
    [] OTHER             -> [found |-> FALSE, to |-> "",       value |-> 0,  status |-> 0]

(* The `amount` of an allocate request is a decimal ether literal.  A     *)
(* literal is named here by what ethers.parseEther makes of it: either it *)
(* throws (valid = FALSE) or it returns a signed count of wei (a literal  *)
(* has up to 18 fractional digits and an optional leading minus sign).    *)
(* An absent or falsy amount is replaced by '0' (line 292).               *)
WeiInputs == {0 - 4, 4, 7}
NoAmount == [given |-> FALSE, valid |-> TRUE, wei |-> 0]
AmountInputs ==
  {NoAmount, [given |-> TRUE, valid |-> FALSE, wei |-> 0]}
    \cup {[given |-> TRUE, valid |-> TRUE, wei |-> w] : w \in WeiInputs}

VARIABLES
  ships,          \* Map ships: sequence index = ship id
  applications,   \* Map applications
  allocations,    \* Map allocations (insertion order = iteration order)
  distributions,  \* Map distributions
  walletOk,       \* TREASURY_PRIVATE_KEY configured (getWallet() non-null)
  reqs,           \* handlers suspended at an await inside fund / distribute, one slot each
  waiting,        \* allocate requests held by requireWhitelist's await, and their answers
  transfers,      \* per allocation: what the chain has accepted from sendTransaction
  nfund           \* funding requests that reached the chain lookup

vars == <<ships, applications, allocations, distributions, walletOk, reqs, waiting,
          transfers, nfund>>

Slots == 1..MaxInflight
ShipIds == 1..MaxShips
AppIds == 1..MaxApps

IdleReq ==
  [pc |-> "idle", kind |-> "none", ship |-> 0, txHash |-> "", pending |-> <<>>, i |-> 0,
   value |-> 0, payouts |-> <<>>]

(* The body of POST /applications/:id/allocate, with the :id.             *)
AllocateBodies ==
  {[app |-> a, captain |-> c, approved |-> ok, amount |-> amt] :
     a \in AppIds, c \in {CaptainAddr, CaptainMixedCase, OtherAddr}, ok \in BOOLEAN, amt \in AmountInputs}

(* ------------------------------ helpers ------------------------------- *)
RECURSIVE SumSeq(_)
SumSeq(s) == IF s = <<>> THEN 0 ELSE Head(s) + SumSeq(Tail(s))

(* BigInt division truncates toward zero.                                 *)
BigIntDiv(a, b) == IF a >= 0 THEN a \div b ELSE 0 - ((0 - a) \div b)

(* A filter that forgets the distributed flag.                            *)
isPendingAnyFlag(s, k) ==
  /\ allocations[k].shipId = s
  /\ allocations[k].amount > 0
(* line 345: the filter of the pending allocations *)
isPending(s, k) ==
  /\ allocations[k].shipId = s
  /\ ~allocations[k].distributed
  /\ allocations[k].amount > 0

RECURSIVE filterFrom(_, _)
(* Array.from(allocations.values()).filter(...): the kept ids, in the     *)
(* Map's insertion order, from id k on.                                   *)
filterFrom(s, k) ==
  IF k > Len(allocations) THEN <<>>
  ELSE (IF isPending(s, k) THEN <<k>> ELSE <<>>) \o filterFrom(s, k + 1)

(* line 344-345 *)
pendingAllocations(s) == filterFrom(s, 1)

(* line 351 *)
totalToDistribute(p) == SumSeq([k \in 1..Len(p) |-> allocations[p[k]].amount])
(* line 352 *)
fee(p) == BigIntDiv(totalToDistribute(p) * FEE_PERCENT, 100)
(* line 353 *)
netTotal(p) == totalToDistribute(p) - fee(p)
(* The net amount as the gross less the rounded-down fee.                 *)
netAmountLessFee(amt) == amt - BigIntDiv(amt * FEE_PERCENT, 100)
(* line 358 *)
netAmount(amt) == BigIntDiv(amt * 95, 100)

(* ------------------------------- Init --------------------------------- *)
Init ==
  /\ ships = <<>>
  /\ applications = <<>>
  /\ allocations = <<>>
  /\ distributions = <<>>
  /\ walletOk \in BOOLEAN
  /\ reqs = [r \in Slots |-> IdleReq]
  /\ waiting = <<>>
  /\ transfers = <<>>
  /\ nfund = 0

(* A handler that reaches an await is suspended in the lowest free slot.  *)
Suspend(r, q) ==
  /\ reqs[r].pc = "idle"
  /\ \A x \in Slots : x < r => reqs[x].pc # "idle"
  /\ reqs' = [reqs EXCEPT ![r] = q]

Resume(r) == reqs' = [reqs EXCEPT ![r] = IdleReq]

Serving(kind) == {r \in Slots : reqs[r].kind = kind}

(* Every handler is mounted behind requireWhitelist (lines 79-91), which  *)
(* awaits the list and then calls the handler in the same turn.  A        *)
(* request touches no state before that turn, so the actions below start  *)
(* at it: "a whitelisted request is received and its handler runs up to   *)
(* its first await".  A request the list turns away (400, 403) never      *)
(* reaches a handler and changes nothing.                                 *)
(*                                                                        *)
(* What a handler answers is a function of the request and of the state   *)
(* it finds: the ...Outcome operators are the handlers' chains of early   *)
(* returns, the actions are their effects.  A request that is refused     *)
(* leaves every variable as it was.                                       *)

(* ------------------------------ POST /ships --------------------------- *)
(* lines 97-111 *)
createShipOutcome(valid) == IF valid THEN "Created" ELSE "InvalidInput"

CreateShip ==
  /\ Len(ships) < MaxShips
  /\ \E valid \in BOOLEAN :
       IF createShipOutcome(valid) = "Created"
       THEN ships' = Append(ships, [captain |-> toLowerCase(CaptainAddr), budget |-> 0,
                                    allocated |-> 0, distributed |-> 0, status |-> "open"])
       ELSE UNCHANGED ships
  /\ UNCHANGED <<applications, allocations, distributions, walletOk, reqs, waiting, transfers, nfund>>

(* ------------------------------ GET /ships ---------------------------- *)
(* Lazy expiry, lines 141-147.  Whether now > endDate is the clock's      *)
(* business: any set of open ships may have run out by this call.         *)
ListShips ==
  /\ \E E \in SUBSET {s \in 1..Len(ships) : ships[s].status = "open"} :
       /\ E # {}
       /\ ships' = [s \in 1..Len(ships) |->
                      IF s \in E THEN [ships[s] EXCEPT !.status = "closed"] ELSE ships[s]]
  /\ UNCHANGED <<applications, allocations, distributions, walletOk, reqs, waiting, transfers, nfund>>

(* --------------------------- POST /ships/:id/apply -------------------- *)
(* lines 209-232; input: "ok", or which validation turns the body down    *)
applyOutcome(s, input) ==
  IF s > Len(ships) THEN "NotFound"
  ELSE IF ships[s].status # "open" THEN "InvalidState"
  ELSE IF input # "ok" THEN input
  ELSE "Created"

Apply(s) ==
  /\ Len(applications) < MaxApps
  /\ \E input \in {"ok", "InvalidInput", "InvalidAmount"} :
       IF applyOutcome(s, input) = "Created"
       THEN applications' = Append(applications,
                              [shipId |-> s, status |-> "pending", allocation |-> 0])
       ELSE UNCHANGED applications
  /\ UNCHANGED <<ships, allocations, distributions, walletOk, reqs, waiting, transfers, nfund>>

(* --------------------------- POST /ships/:id/fund --------------------- *)
(* lines 171-178: up to the call of getTransaction                        *)
FundStart(r, s, h) ==
  /\ nfund < MaxFunds
  /\ IF s > Len(ships)
     THEN UNCHANGED <<reqs, nfund>>
     ELSE /\ Suspend(r, [IdleReq EXCEPT !.pc = "getTransaction", !.kind = "fund",
                                        !.ship = s, !.txHash = h])
          /\ nfund' = nfund + 1
  /\ UNCHANGED <<ships, applications, allocations, distributions, walletOk, waiting, transfers>>

(* line 178 answered, line 179 asked; a provider error is caught (194)    *)
(* and answered 500.                                                      *)
FundGotTransaction(r) ==
  /\ reqs[r].pc = "getTransaction"
  /\ \/ reqs' = [reqs EXCEPT ![r].pc = "getTransactionReceipt"]
     \/ Resume(r)
  /\ UNCHANGED <<ships, applications, allocations, distributions, walletOk, waiting, transfers, nfund>>

(* A verification that does not look at the recipient.                    *)
fundOutcomeAnyRecipient(tx, threw) ==
  IF threw THEN "Error500"
  ELSE IF ~tx.found \/ tx.status # 1 THEN "TransactionNotFound"
  ELSE "Funded"
(* lines 181-187, and the catch of line 194 *)
fundOutcome(tx, threw) ==
  IF threw THEN "Error500"
  ELSE IF ~tx.found \/ tx.status # 1 THEN "TransactionNotFound"
  ELSE IF toLowerCase(tx.to) # toLowerCase(TREASURY_ADDRESS) THEN "WrongRecipient"
  ELSE "Funded"

(* The sum taken on the decimal strings: '10' + 10 is '1010'.             *)
creditedConcat(ship, tx) ==
  IF tx.value < 10 THEN ship.budget * 10 + tx.value ELSE ship.budget * 100 + tx.value
(* line 189 *)
credited(ship, tx) == ship.budget + tx.value

(* lines 179-193 *)
FundCredit(r) ==
  /\ reqs[r].pc = "getTransactionReceipt"
  /\ Resume(r)
  /\ LET s == reqs[r].ship
         tx == ChainTx(reqs[r].txHash)
     IN \E threw \in BOOLEAN :
          IF fundOutcome(tx, threw) = "Funded"
          THEN ships' = [ships EXCEPT ![s].budget = credited(ships[s], tx)]
          ELSE UNCHANGED ships
  /\ UNCHANGED <<applications, allocations, distributions, walletOk, waiting, transfers, nfund>>

(* ---------------------- POST /applications/:id/allocate --------------- *)
(* line 292: ethers.parseEther of the literal (see AmountInputs)          *)
parseEther(amt) == amt.wei
(* A remaining budget that forgets what is already allocated.             *)
remainingStale(ship) == ship.budget
(* line 297 *)
remaining(ship) == ship.budget - ship.allocated
(* A budget check against the whole budget instead of what remains.       *)
overBudgetWhole(allocWei, ship) == allocWei > ship.budget
(* line 298 *)
overBudget(allocWei, ship) == allocWei > remaining(ship)
(* A total that is replaced by the last amount instead of raised by it.   *)
allocatedAfterOverwrite(ship, allocWei) == allocWei
(* line 324 *)
allocatedAfter(ship, allocWei) == ship.allocated + allocWei
(* A rejection that hands the application's allocation back to the ship. *)
shipAfterRejectRefund(ship, application) ==
  [ship EXCEPT !.allocated = ship.allocated - application.allocation]
(* lines 283-288: what a rejection makes of the ship: nothing is written  *)
(* to it.                                                                 *)
shipAfterReject(ship, application) == ship

(* A captain check that lets every sender through.                        *)
isCaptainAnyone(captain, ship) == TRUE
(* line 279 *)
isCaptain(captain, ship) == toLowerCase(captain) = ship.captain

(* lines 272-304: the early returns of the handler, for the request q     *)
allocateOutcome(q) ==
  IF q.app > Len(applications) THEN "NotFound"
  ELSE IF ~isCaptain(q.captain, ships[applications[q.app].shipId]) THEN "Forbidden"
  ELSE IF q.approved = FALSE THEN "Rejected"
  ELSE IF ~q.amount.valid THEN "InvalidAmount"
  ELSE IF overBudget(parseEther(q.amount), ships[applications[q.app].shipId])
  THEN "InsufficientBudget"
  ELSE "Allocated"

(* lines 271-329, for the request q *)
Allocate(q) ==
  LET code == allocateOutcome(q) IN
  /\ code = "Allocated" => Len(allocations) < MaxAllocs
  /\ IF code = "Rejected"
     THEN LET s == applications[q.app].shipId IN
          /\ applications' = [applications EXCEPT ![q.app].status = "rejected"]
          /\ ships' = [ships EXCEPT ![s] = shipAfterReject(ships[s], applications[q.app])]
          /\ UNCHANGED <<allocations, transfers>>
     ELSE IF code = "Allocated"
     THEN LET s == applications[q.app].shipId
              allocWei == parseEther(q.amount)
          IN /\ allocations' = Append(allocations,
                                 [shipId |-> s, applicationId |-> q.app, amount |-> allocWei,
                                  distributed |-> FALSE, txHash |-> FALSE])
             /\ transfers' = Append(transfers, [count |-> 0, value |-> 0])
             /\ applications' = [applications EXCEPT ![q.app].status = "approved",
                                                     ![q.app].allocation = allocWei]
             /\ ships' = [ships EXCEPT ![s].allocated = allocatedAfter(ships[s], allocWei)]
     ELSE UNCHANGED <<ships, applications, allocations, transfers>>
  /\ UNCHANGED <<distributions, walletOk, reqs, nfund>>

(* An allocate request that the list lets through at once.                *)
AllocateNow ==
  /\ \E q \in AllocateBodies :
       /\ ~q.approved => q.amount = NoAmount
       /\ Allocate(q)
  /\ UNCHANGED waiting

(* ------------------------ POST /ships/:id/distribute ------------------ *)
(* lines 337-349 *)
distributeOutcome(s) ==
  IF s > Len(ships) THEN "NotFound"
  ELSE IF ~walletOk THEN "PaymentsUnavailable"
  ELSE IF Len(pendingAllocations(s)) = 0 THEN "NothingToDistribute"
  ELSE "Paying"

(* lines 337-361: the checks, the selection, and the first iteration up   *)
(* to its await of sendTransaction.                                       *)
DistributeStart(r, s) ==
  /\ Len(distributions) + Cardinality(Serving("distribute")) < MaxRuns
  /\ IF distributeOutcome(s) = "Paying"
     THEN LET p == pendingAllocations(s) IN
          Suspend(r, [IdleReq EXCEPT !.pc = "sendTransaction", !.kind = "distribute",
                                     !.ship = s, !.pending = p, !.i = 1,
                                     !.value = netAmount(allocations[p[1]].amount)])
     ELSE UNCHANGED reqs
  /\ UNCHANGED <<ships, applications, allocations, distributions, walletOk, waiting, transfers, nfund>>

(* A run that always ends the round.                                      *)
statusAfterCompleted(ship) == "completed"
(* line 384-388 *)
statusAfter(ship) == IF ship.distributed >= ship.allocated THEN "completed" ELSE "distributing"

(* The total advanced by the per-allocation net amounts of the batch.     *)
distributedAfterNets(ship, p) ==
  ship.distributed + SumSeq([k \in 1..Len(p) |-> netAmount(allocations[p[k]].amount)])
(* line 383 *)
distributedAfter(ship, p) == ship.distributed + netTotal(p)

(* An allocation that is flagged whether or not the payment went through. *)
allocationAfterSendAlways(alloc, ok) == [alloc EXCEPT !.distributed = TRUE, !.txHash = TRUE]
(* lines 363-366 when sendTransaction resolved; the catch of lines        *)
(* 378-380 leaves the allocation alone.                                   *)
allocationAfterSend(alloc, ok) ==
  IF ok THEN [alloc EXCEPT !.distributed = TRUE, !.txHash = TRUE] ELSE alloc

(* lines 361-381: sendTransaction settles (ok: resolved with a hash, the  *)
(* chain has the transfer; ~ok: rejected, caught at 378).  Then either    *)
(* the next iteration up to its await, or lines 383-415.                  *)
DistributeSent(r) ==
  /\ reqs[r].pc = "sendTransaction"
  /\ \E ok \in BOOLEAN :
       LET q == reqs[r]
           a == q.pending[q.i]
           paid == IF ok THEN Append(q.payouts, a) ELSE q.payouts
       IN /\ allocations' = [allocations EXCEPT ![a] = allocationAfterSend(allocations[a], ok)]
          /\ transfers' = IF ok THEN [transfers EXCEPT ![a].count = @ + 1, ![a].value = @ + q.value]
                          ELSE transfers
          /\ IF q.i < Len(q.pending)
             THEN /\ reqs' = [reqs EXCEPT ![r].i = q.i + 1, ![r].payouts = paid,
                                          ![r].value = netAmount(allocations[q.pending[q.i + 1]].amount)]
                  /\ UNCHANGED <<ships, distributions>>
             ELSE LET ship == [ships[q.ship] EXCEPT !.distributed = distributedAfter(ships[q.ship], q.pending)]
                  IN /\ ships' = [ships EXCEPT ![q.ship] = [ship EXCEPT !.status = statusAfter(ship)]]
                     /\ distributions' = Append(distributions,
                                           [shipId |-> q.ship,
                                            totalGross |-> totalToDistribute(q.pending),
                                            totalFee |-> fee(q.pending),
                                            totalNet |-> netTotal(q.pending),
                                            payouts |-> paid])
                     /\ Resume(r)
  /\ UNCHANGED <<applications, walletOk, waiting, nfund>>

(* ------------------------------- Next --------------------------------- *)
Next ==
  \/ CreateShip
  \/ ListShips
  \/ \E s \in ShipIds : Apply(s)
  \/ \E r \in Slots, s \in ShipIds, h \in TxHashes : FundStart(r, s, h)
  \/ \E r \in Slots : FundGotTransaction(r)
  \/ \E r \in Slots : FundCredit(r)
  \/ AllocateNow
  \/ \E r \in Slots, s \in ShipIds : DistributeStart(r, s)
  \/ \E r \in Slots : DistributeSent(r)

Spec == Init /\ [][Next]_vars

(* --------------------- two allocate requests in flight ---------------- *)
(* requireWhitelist holds a request at `await fetchWhitelist()`; the      *)
(* handler runs when the list answers.  AllocateHeld is that turn for the *)
(* held request r, and keeps what was answered.                           *)
AllocateHeld(r) ==
  /\ waiting[r].state = "held"
  /\ Allocate(waiting[r].body)
  /\ waiting' = [waiting EXCEPT ![r].state = "answered",
                                ![r].result = allocateOutcome(waiting[r].body)]

MaxRaceWei == 12     \* the amounts 1..MaxRaceWei of the two requests

(* A funded round with two pending applications, and the captain's        *)
(* approvals of both received and waiting for the list.                   *)
InitRace ==
  /\ \E b \in {10, 20}, st \in {"open", "closed"} :
       /\ ships = <<[captain |-> toLowerCase(CaptainAddr), budget |-> b, allocated |-> 0,
                     distributed |-> 0, status |-> st]>>
       /\ nfund = b \div 10
  /\ applications = [a \in 1..2 |-> [shipId |-> 1, status |-> "pending", allocation |-> 0]]
  /\ allocations = <<>>
  /\ distributions = <<>>
  /\ transfers = <<>>
  /\ walletOk \in BOOLEAN
  /\ reqs = [r \in Slots |-> IdleReq]
  /\ \E x, y \in 1..MaxRaceWei :
       waiting = <<[body |-> [app |-> 1, captain |-> CaptainAddr, approved |-> TRUE,
                              amount |-> [given |-> TRUE, valid |-> TRUE, wei |-> x]],
                    state |-> "held", result |-> "none"],
                   [body |-> [app |-> 2, captain |-> CaptainAddr, approved |-> TRUE,
                              amount |-> [given |-> TRUE, valid |-> TRUE, wei |-> y]],
                    state |-> "held", result |-> "none"]>>

NextRace == \E r \in 1..Len(waiting) : AllocateHeld(r)

SpecRace == InitRace /\ [][NextRace]_vars

(* --------------------- one allocation to be paid out ------------------ *)
MaxFeeWei == 120     \* the gross amounts 1..MaxFeeWei, and 1,000,000

(* A round funded and fully allocated to one approved application.        *)
InitFee ==
  /\ \E amt \in (1..MaxFeeWei) \cup {1000000} :
       /\ ships = <<[captain |-> toLowerCase(CaptainAddr), budget |-> amt, allocated |-> amt,
                     distributed |-> 0, status |-> "open"]>>
       /\ applications = <<[shipId |-> 1, status |-> "approved", allocation |-> amt]>>
       /\ allocations = <<[shipId |-> 1, applicationId |-> 1, amount |-> amt,
                           distributed |-> FALSE, txHash |-> FALSE]>>
  /\ transfers = <<[count |-> 0, value |-> 0]>>
  /\ distributions = <<>>
  /\ walletOk = TRUE
  /\ reqs = [r \in Slots |-> IdleReq]
  /\ waiting = <<>>
  /\ nfund = 1

NextFee ==
  \/ \E r \in Slots, s \in ShipIds : DistributeStart(r, s)
  \/ \E r \in Slots : DistributeSent(r)

SpecFee == InitFee /\ [][NextFee]_vars

(* ====================================================================== *)
(*                               Properties                               *)
(* ====================================================================== *)
ShipsNow == 1..Len(ships)
AllocsNow == 1..Len(allocations)
Captain(q) == q.captain = CaptainAddr
Approve(a, w) ==
  [app |-> a, captain |-> CaptainAddr, approved |-> TRUE,
   amount |-> [given |-> TRUE, valid |-> TRUE, wei |-> w]]
Reject(a) == [app |-> a, captain |-> CaptainAddr, approved |-> FALSE, amount |-> NoAmount]

(* C1: for every round, allocated <= budget in every reachable state,     *)
(* whatever funding credits, decisions (approvals, rejections, repeated   *)
(* decisions on one application) and distribute runs have interleaved.    *)
C1_AllocatedWithinBudget == \A s \in ShipsNow : ships[s].allocated <= ships[s].budget

(* C1 witness: a funded round with less than the smallest grant left,     *)
(* after two approvals of the same application and a distribute run.      *)
C1_Witness ==
  \E s \in ShipsNow :
    /\ ships[s].allocated > 0
    /\ ships[s].budget - ships[s].allocated < 4
    /\ \E a, b \in AllocsNow : a # b /\ allocations[a].applicationId = allocations[b].applicationId
    /\ Len(distributions) > 0

(* C2: for every round, 0 <= distributed <= allocated after every         *)
(* operation (also after a run with failed payouts, after a retry, and    *)
(* when two runs overlap).                                                *)
C2_DistributedWithinAllocated ==
  \A s \in ShipsNow : 0 <= ships[s].distributed /\ ships[s].distributed <= ships[s].allocated

(* C3: two approvals in flight for two pending applications of one round, *)
(* each amount within the remaining budget and the two together not: once *)
(* both are answered, one was allocated and the other was refused for     *)
(* insufficient budget, in whichever order the handlers ran.              *)
RaceRemaining ==
  ships[1].budget - ships[1].allocated
    + SumSeq([r \in 1..Len(waiting) |->
                IF waiting[r].result = "Allocated" THEN waiting[r].body.amount.wei ELSE 0])
RaceCase ==
  /\ Len(waiting) = 2
  /\ \A r \in 1..2 : waiting[r].state = "answered"
  /\ waiting[1].body.app # waiting[2].body.app
  /\ waiting[1].body.amount.wei <= RaceRemaining
  /\ waiting[2].body.amount.wei <= RaceRemaining
  /\ waiting[1].body.amount.wei + waiting[2].body.amount.wei > RaceRemaining
C3_ExactlyOneApproval ==
  RaceCase =>
    \/ waiting[1].result = "Allocated" /\ waiting[2].result = "InsufficientBudget"
    \/ waiting[2].result = "Allocated" /\ waiting[1].result = "InsufficientBudget"

(* C3 witness: the second request was served first and won.               *)
C3_Witness ==
  /\ RaceCase
  /\ waiting[2].result = "Allocated"
  /\ waiting[1].result = "InsufficientBudget"
  /\ Len(allocations) = 1

(* C4: no allocation is paid twice: each allocation has at most one       *)
(* successful payment, and no allocation whose distributed flag is set is *)
(* handed to sendTransaction.                                             *)
Handed(r) ==
  /\ reqs'[r].pc = "sendTransaction"
  /\ reqs[r].pc # "sendTransaction" \/ reqs'[r].i # reqs[r].i
C4_PaidAtMostOnce ==
  /\ [](\A a \in AllocsNow : transfers[a].count <= 1)
  /\ [][\A r \in Slots :
          Handed(r) => ~allocations'[reqs'[r].pending[reqs'[r].i]].distributed]_vars

(* C5: Distribute on a round with no allocation that is unpaid and of     *)
(* positive amount is refused with NothingToDistribute; it sends no       *)
(* payment, appends no record and leaves the round as it was.             *)
NoUnpaid(s) ==
  \A k \in AllocsNow :
    allocations[k].shipId = s => allocations[k].distributed \/ allocations[k].amount <= 0
C5_Refused(s) == distributeOutcome(s) = "NothingToDistribute"
C5_NoEffect ==
  \A r \in Slots, s \in ShipsNow :
    DistributeStart(r, s) /\ NoUnpaid(s) =>
      UNCHANGED <<ships, allocations, distributions, transfers, reqs>>
(* C5 as stated: whatever the configuration.                              *)
C5_AsStated == \A s \in ShipsNow : NoUnpaid(s) => C5_Refused(s)
(* C5 as amended: when the treasury wallet is configured.                 *)
C5_NothingToDistribute ==
  /\ [](\A s \in ShipsNow : NoUnpaid(s) /\ walletOk => C5_Refused(s))
  /\ [][C5_NoEffect]_vars

(* C5 witness: every positive allocation of the round has been paid by a  *)
(* finished run, and the next Distribute is refused.                      *)
C5_Witness ==
  \E s \in ShipsNow :
    /\ walletOk /\ NoUnpaid(s) /\ C5_Refused(s)
    /\ \E k \in AllocsNow : allocations[k].shipId = s /\ allocations[k].distributed
    /\ \E d \in 1..Len(distributions) : distributions[d].shipId = s
    /\ \A r \in Slots : reqs[r].pc = "idle"

(* C6: what is sent for an allocation is floor(amount * 95 / 100), the    *)
(* rest of the amount being the fee; 1,000,000 gives 950,000 and 50,000.  *)
IsFloor95(amt, net) == net * 100 <= amt * 95 /\ amt * 95 < (net + 1) * 100
C6_NetOfFee ==
  /\ \A r \in Slots :
       reqs[r].pc = "sendTransaction" =>
         LET amt == allocations[reqs[r].pending[reqs[r].i]].amount
             net == reqs[r].value
         IN /\ IsFloor95(amt, net)
            /\ amt = 1000000 => net = 950000 /\ amt - net = 50000
  /\ \A a \in AllocsNow :
       transfers[a].count > 0 =>
         LET net == transfers[a].value \div transfers[a].count
         IN /\ net * transfers[a].count = transfers[a].value
            /\ IsFloor95(allocations[a].amount, net)

(* C6 witness: the allocation of 1,000,000 has been paid 950,000.         *)
C6_Witness ==
  \E a \in AllocsNow :
    /\ allocations[a].amount = 1000000
    /\ allocations[a].distributed
    /\ transfers[a] = [count |-> 1, value |-> 950000]

(* C7: a rejection by the captain changes neither allocated nor budget    *)
(* nor distributed of any round, whatever the application's status was.   *)
C7_Step ==
  \A a \in AppIds :
    Allocate(Reject(a)) /\ allocateOutcome(Reject(a)) = "Rejected" =>
      /\ Len(ships') = Len(ships)
      /\ \A s \in ShipsNow :
           /\ ships'[s].allocated = ships[s].allocated
           /\ ships'[s].budget = ships[s].budget
           /\ ships'[s].distributed = ships[s].distributed
C7_RejectKeepsTotals == [][C7_Step]_vars

(* C7 witness: an application rejected after it was approved: its         *)
(* allocation is still counted in the round.                              *)
C7_Witness ==
  \E k \in AllocsNow :
    /\ applications[allocations[k].applicationId].status = "rejected"
    /\ allocations[k].amount > 0
    /\ ships[allocations[k].shipId].allocated >= allocations[k].amount

(* C8: a funding credit of a verified transaction adds exactly the        *)
(* transaction's value to the round's budget and changes nothing else of  *)
(* any round, whatever ran between the start of the verification and the  *)
(* credit.                                                                *)
C8_Step ==
  \A r \in Slots :
    FundCredit(r) /\ ships' # ships =>
      LET s == reqs[r].ship
          X == ChainTx(reqs[r].txHash).value
      IN /\ fundOutcome(ChainTx(reqs[r].txHash), FALSE) = "Funded"
         /\ ships' = [ships EXCEPT ![s].budget = ships[s].budget + X]
C8_CreditExact == [][C8_Step]_vars

(* C8 witness: the second credit has arrived on a round in which an       *)
(* approval was made and a distribute run is waiting for its payment.     *)
C8_Witness ==
  \E s \in ShipsNow :
    /\ ships[s].budget = 20
    /\ ships[s].allocated = 7
    /\ \E r \in Slots : reqs[r].pc = "sendTransaction" /\ reqs[r].ship = s

(* C9: the end-to-end scenario.  A new round credited with 10 and two     *)
(* pending applications: approving the first for 4 is allocated and       *)
(* leaves allocated = 4, remaining = 6; approving the second for 7 is     *)
(* then refused for insufficient budget and allocated stays 4; a          *)
(* Distribute whose payment succeeds makes one payout of 3 and completes  *)
(* the round.                                                             *)
C9_Quiet == \A r \in Slots : reqs[r].pc = "idle"
C9_Funded ==
  /\ Len(ships) = 1 /\ Len(applications) = 2
  /\ ships[1].budget = 10 /\ ships[1].distributed = 0
  /\ \A a \in 1..2 : applications[a].shipId = 1
  /\ applications[2].status = "pending"
  /\ distributions = <<>>
C9_Fresh ==
  /\ C9_Funded
  /\ ships[1].allocated = 0
  /\ applications[1].status = "pending"
  /\ allocations = <<>>
C9_FirstApproved ==
  /\ C9_Funded
  /\ ships[1].allocated = 4
  /\ applications[1] = [shipId |-> 1, status |-> "approved", allocation |-> 4]
  /\ allocations = <<[shipId |-> 1, applicationId |-> 1, amount |-> 4,
                      distributed |-> FALSE, txHash |-> FALSE]>>
  /\ transfers = <<[count |-> 0, value |-> 0]>>
C9_Paying(r) ==
  /\ C9_FirstApproved
  /\ reqs[r].pc = "sendTransaction"
  /\ \A x \in Slots \ {r} : reqs[x].pc = "idle"
C9_States ==
  /\ C9_Fresh => allocateOutcome(Approve(1, 4)) = "Allocated"
  /\ C9_FirstApproved =>
       /\ ships[1].budget - ships[1].allocated = 6
       /\ allocateOutcome(Approve(2, 7)) = "InsufficientBudget"
       /\ walletOk => distributeOutcome(1) = "Paying"
  /\ \A r \in Slots : C9_Paying(r) => reqs[r].pending = <<1>> /\ reqs[r].value = 3
C9_Steps ==
  /\ C9_Fresh /\ Allocate(Approve(1, 4)) => C9_FirstApproved'
  /\ C9_FirstApproved /\ Allocate(Approve(2, 7)) =>
       UNCHANGED <<ships, applications, allocations>>
  /\ \A r \in Slots :
       C9_Paying(r) /\ DistributeSent(r) /\ allocations'[1].distributed =>
         /\ transfers' = <<[count |-> 1, value |-> 3]>>
         /\ ships'[1].status = "completed"
         /\ ships'[1].allocated = 4 /\ ships'[1].budget = 10
         /\ Len(distributions') = 1
         /\ distributions'[1].payouts = <<1>>
C9_Scenario == []C9_States /\ [][C9_Steps]_vars

(* C9 witness: the scenario has run to its end.                           *)
C9_Witness ==
  /\ Len(ships) = 1 /\ Len(applications) = 2
  /\ ships[1].budget = 10 /\ ships[1].allocated = 4 /\ ships[1].status = "completed"
  /\ applications[1].status = "approved" /\ applications[2].status = "pending"
  /\ Len(allocations) = 1 /\ allocations[1].distributed
  /\ transfers = <<[count |-> 1, value |-> 3]>>
  /\ Len(distributions) = 1 /\ distributions[1].payouts = <<1>>
  /\ C9_Quiet

(* C10: a decision by the captain on an application that is already       *)
(* approved or rejected is refused with InvalidState, and leaves the      *)
(* application, the round and the allocations as they were.               *)
Decided(q) == q.app <= Len(applications) /\ applications[q.app].status # "pending"
C10_Step ==
  \A q \in AllocateBodies :
    Captain(q) /\ Decided(q) /\ Allocate(q) => UNCHANGED <<applications, ships, allocations>>
C10_DecidedIsFinal ==
  /\ [](\A q \in AllocateBodies : Captain(q) /\ Decided(q) => allocateOutcome(q) = "InvalidState")
  /\ [][C10_Step]_vars

(* C11: a decision sent by anyone whose address is not, up to case, the   *)
(* address the round was created with is refused with Forbidden and       *)
(* leaves applications, rounds and allocations as they were; every step   *)
(* that decides an application or creates an allocation is a decision     *)
(* sent under the round's captain address.                                *)
ApproverSpellings == {"0xCAP", "0xCap", "0xcap"}
ByApprover(q) == q.captain \in ApproverSpellings
C11_Refused ==
  \A q \in AllocateBodies :
    q.app <= Len(applications) /\ ~ByApprover(q) => allocateOutcome(q) = "Forbidden"
C11_Decides ==
  \/ \E a \in 1..Len(applications) : applications'[a].status # applications[a].status
  \/ Len(allocations') > Len(allocations)
C11_Step ==
  /\ ~UNCHANGED <<applications, ships, allocations>> =>
       \A q \in AllocateBodies : ~(~ByApprover(q) /\ Allocate(q))
  /\ C11_Decides => \E q \in AllocateBodies : ByApprover(q) /\ Allocate(q)
C11_OnlyCaptainDecides == []C11_Refused /\ [][C11_Step]_vars

(* C11 witness: on a funded round with a pending application, the         *)
(* approval that is allocated under either spelling of the captain's      *)
(* address is refused for another sender.                                 *)
C11_Witness ==
  \E a \in 1..Len(applications) :
    /\ applications[a].status = "pending"
    /\ allocateOutcome(Approve(a, 4)) = "Allocated"
    /\ allocateOutcome([Approve(a, 4) EXCEPT !.captain = CaptainMixedCase]) = "Allocated"
    /\ allocateOutcome([Approve(a, 4) EXCEPT !.captain = OtherAddr]) = "Forbidden"
    /\ allocateOutcome([Reject(a) EXCEPT !.captain = OtherAddr]) = "Forbidden"

(* C12: a round is created with budget 0; its budget never decreases; it  *)
(* changes only in the crediting step of a funding request whose          *)
(* transaction was found, succeeded and went to the treasury address.  A  *)
(* funding request that is refused, and every decision and distribute     *)
(* step, leaves it as it was.                                             *)
TreasurySpellings == {"0xccD7", "0xCCD7", "0xccd7"}
Verified(h) ==
  /\ ChainTx(h).found
  /\ ChainTx(h).status = 1
  /\ ChainTx(h).to \in TreasurySpellings
BudgetChanged(s) == ships'[s].budget # ships[s].budget
C12_Step ==
  /\ Len(ships') >= Len(ships)
  /\ \A s \in 1..Len(ships') : s > Len(ships) => ships'[s].budget = 0
  /\ \A s \in ShipsNow :
       /\ ships'[s].budget >= ships[s].budget
       /\ BudgetChanged(s) =>
            /\ \E r \in Slots :
                 FundCredit(r) /\ reqs[r].ship = s /\ Verified(reqs[r].txHash)
            /\ \A r \in Slots : FundCredit(r) => Verified(reqs[r].txHash)
            /\ ~\E q \in AllocateBodies : Allocate(q)
            /\ ~\E r \in Slots : DistributeStart(r, s) \/ DistributeSent(r)
C12_BudgetOnlyByFunding == [][C12_Step]_vars

(* C12 witness: a round credited once, with an allocation and a finished  *)
(* distribute run, while a funding request whose transaction went         *)
(* elsewhere is about to be answered.                                     *)
C12_Witness ==
  \E s \in ShipsNow, r \in Slots :
    /\ ships[s].budget = 10
    /\ ships[s].allocated > 0
    /\ \E d \in 1..Len(distributions) : distributions[d].shipId = s
    /\ reqs[r].pc = "getTransactionReceipt" /\ reqs[r].ship = s
    /\ reqs[r].txHash = "txElsewhere"

(* C13: a transaction reference credits a round once, however often it is *)
(* submitted, one request after the other or several at a time: a round's *)
(* budget is at most the total value of the distinct transactions that    *)
(* pass the verification.                                                 *)
References == <<"txA", "txElsewhere", "txReverted", "txUnknown">>
VerifiedTotal ==
  SumSeq([k \in 1..Len(References) |->
            IF Verified(References[k]) THEN ChainTx(References[k]).value ELSE 0])
C13_CreditedOnce == \A s \in ShipsNow : ships[s].budget <= VerifiedTotal

(* C14: in every reachable state an application has at most one          *)
(* allocation: no sequence of decisions creates a second one for it.      *)
C14_OneAllocationPerApplication ==
  \A a, b \in AllocsNow :
    allocations[a].applicationId = allocations[b].applicationId => a = b

(* C15: in every reachable state, also while a distribute run or a        *)
(* funding verification of the round is suspended, a round's allocated    *)
(* total is the sum of the amounts of its allocations, and the allocation *)
(* recorded on an approved application is the amount of the allocation    *)
(* its latest approval created.                                           *)
AllocationsOf(a) == {k \in AllocsNow : allocations[k].applicationId = a}
LatestOf(a) == CHOOSE k \in AllocationsOf(a) : \A j \in AllocationsOf(a) : j <= k
C15_AllocatedIsSum ==
  /\ \A s \in ShipsNow :
       ships[s].allocated =
         SumSeq([k \in AllocsNow |->
                   IF allocations[k].shipId = s THEN allocations[k].amount ELSE 0])
  /\ \A a \in 1..Len(applications) :
       applications[a].status = "approved" =>
         /\ AllocationsOf(a) # {}
         /\ applications[a].allocation = allocations[LatestOf(a)].amount

(* C15 witness: an application approved twice for different amounts, on a *)
(* round with a distribute run and a funding verification suspended.      *)
C15_Witness ==
  \E a \in 1..Len(applications), r1, r2 \in Slots :
    /\ applications[a].status = "approved"
    /\ Cardinality(AllocationsOf(a)) = 2
    /\ \E k \in AllocationsOf(a) : allocations[k].amount # applications[a].allocation
    /\ reqs[r1].kind = "distribute" /\ reqs[r1].ship = applications[a].shipId
    /\ reqs[r2].kind = "fund" /\ reqs[r2].ship = applications[a].shipId

(* C16: when the payment of one selected allocation fails, the allocation *)
(* is left as it was (unpaid, without a payment reference), allocations   *)
(* paid before keep their flag, the run goes on to the next selected      *)
(* allocation, and after the last one the call ends with a distribution   *)
(* record.                                                                *)
PaymentFailed(r) == DistributeSent(r) /\ transfers' = transfers
C16_Step ==
  \A r \in Slots :
    reqs[r].pc = "sendTransaction" /\ reqs'[r] # reqs[r] =>
      /\ \A k \in AllocsNow : allocations[k].distributed => allocations'[k].distributed
      /\ PaymentFailed(r) => allocations' = allocations
      /\ IF reqs[r].i < Len(reqs[r].pending)
         THEN /\ reqs'[r].pc = "sendTransaction"
              /\ reqs'[r].pending = reqs[r].pending
              /\ reqs'[r].i = reqs[r].i + 1
              /\ distributions' = distributions
         ELSE /\ reqs'[r].pc = "idle"
              /\ Len(distributions') = Len(distributions) + 1
              /\ distributions'[Len(distributions')].shipId = reqs[r].ship
C16_PartialFailure == [][C16_Step]_vars

(* C16 witness: a finished run over two allocations whose first payment   *)
(* failed and whose second went through.                                  *)
C16_Witness ==
  \E d \in 1..Len(distributions) :
    /\ distributions[d].payouts = <<2>>
    /\ distributions[d].totalGross = allocations[1].amount + allocations[2].amount
    /\ allocations[1].amount > 0
    /\ ~allocations[1].distributed /\ allocations[1].txHash = FALSE
    /\ transfers[1].count = 0
    /\ allocations[2].distributed /\ transfers[2].count = 1

(* C17: when a distribute run has processed its last selected allocation, *)
(* the round's distributed total has grown by the sum of the net amounts  *)
(* of the allocations this run paid, and by nothing when every payment    *)
(* failed.                                                                *)
RunEnds(r) == reqs[r].pc = "sendTransaction" /\ reqs'[r].pc = "idle"
PaidInRun == distributions'[Len(distributions')].payouts
C17_Step ==
  \A r \in Slots :
    RunEnds(r) =>
      ships'[reqs[r].ship].distributed =
        ships[reqs[r].ship].distributed
          + SumSeq([k \in 1..Len(PaidInRun) |-> netAmount(allocations[PaidInRun[k]].amount)])
C17_DistributedByPaidNets == [][C17_Step]_vars

(* C18: the distribution record a run stores lists one payout outcome for *)
(* each allocation the run attempted, in the order of processing, failed  *)
(* payments included: as many outcomes as allocations selected.           *)
C18_Step ==
  \A r \in Slots :
    RunEnds(r) =>
      /\ Len(PaidInRun) = Len(reqs[r].pending)
      /\ \A k \in 1..Len(reqs[r].pending) : PaidInRun[k] = reqs[r].pending[k]
C18_OutcomePerAttempt == [][C18_Step]_vars

(* C19: when a distribute run that got past its checks ends, the round is *)
(* completed if its distributed total is then at least its allocated      *)
(* total, and distributing otherwise, whatever its status was before and  *)
(* whatever decisions and credits were made during the run.               *)
C19_Step ==
  \A r \in Slots :
    RunEnds(r) =>
      LET after == ships'[reqs[r].ship] IN
      /\ after.allocated = ships[reqs[r].ship].allocated
      /\ after.distributed >= after.allocated => after.status = "completed"
      /\ after.distributed < after.allocated => after.status = "distributing"
C19_StatusAfterRun == [][C19_Step]_vars

(* C19 witness: a round left distributing by a run that ended when more   *)
(* was allocated than the run had selected.                               *)
C19_Witness ==
  \E s \in ShipsNow :
    /\ ships[s].status = "distributing"
    /\ ships[s].distributed > 0
    /\ ships[s].distributed < ships[s].allocated
    /\ Len(distributions) = 1
    /\ distributions[1].totalGross < ships[s].allocated
    /\ \A r \in Slots : reqs[r].pc = "idle"

(* C20: a round becomes distributing only when a run leaves allocations   *)
(* unpaid: a run whose every selected payment succeeded, and after which  *)
(* no allocation of the round with a positive amount is unpaid, does not  *)
(* leave the round distributing.                                          *)
NoUnpaidAfter(s) ==
  \A k \in 1..Len(allocations') :
    allocations'[k].shipId = s => allocations'[k].distributed \/ allocations'[k].amount <= 0
C20_Step ==
  \A r \in Slots :
    RunEnds(r) /\ Len(PaidInRun) = Len(reqs[r].pending) /\ NoUnpaidAfter(reqs[r].ship) =>
      ships'[reqs[r].ship].status # "distributing"
C20_DistributingOnlyIfUnpaid == [][C20_Step]_vars

(* C21: in every reachable state a round that is completed has no unpaid  *)
(* allocation: each of its allocations with a positive amount has been    *)
(* paid (also after a run with a failed payment, and after an approval    *)
(* made once the round was completed).                                    *)
C21_CompletedHasNoUnpaid ==
  \A s \in ShipsNow : ships[s].status = "completed" => NoUnpaid(s)

(* C22: in every reachable state, what the payment collaborator has sent  *)
(* for the allocations of a round is in total at most the round's         *)
(* allocated total, and at most its budget, however decisions and         *)
(* distribute runs were ordered and interleaved.                          *)
SentFor(s) ==
  SumSeq([k \in AllocsNow |-> IF allocations[k].shipId = s THEN transfers[k].value ELSE 0])
C22_SentWithinAllocated ==
  \A s \in ShipsNow : SentFor(s) <= ships[s].allocated /\ SentFor(s) <= ships[s].budget

=============================================================================
